---- MODULE Spec2Model ----
(***************************************************************************)
(* Model of lib/cea.py (input writer, solver runner, output parser of the  *)
(* NASA CEA interface) and lib/plumbing.py (feed-line formulas).           *)
(*                                                                         *)
(* Text model.  A line of a document is a sequence of phrases separated by *)
(* whitespace.  A phrase is one of the marker texts of the solver's output *)
(* ("T, K", "THEORETICAL ROCKET PERFORMANCE", ...), a numeral, or a word.  *)
(* `sub in line` holds when the phrase sub is one of the line's phrases;   *)
(* line.split() expands every phrase into its whitespace-separated tokens, *)
(* so the token index of a value depends on the phrases in front of it.    *)
(***************************************************************************)
EXTENDS Integers, Sequences, FiniteSets, TLC

VARIABLES
    CEA_OUT,        \* content of ceadata.out: a sequence of lines
    parse_pc,       \* position of parse_out_file: idle, loop, returned, raised
    lines,          \* f.readlines() of the running parse_out_file
    line_no,        \* number of lines the for loop has consumed
    relevant_flag,  \* relevant_flag of parse_out_file
    r,              \* the CEAOutputData instance r of parse_out_file
    raised,         \* exception that ended parse_out_file, or "none"
    CEA_INP,        \* content of ceadata.inp: a sequence of written lines
    inp,            \* the CEAInputData passed to create_inp_file
    create_pc,      \* position of create_inp_file: idle, returned, raised
    create_err,     \* exception that ended create_inp_file, or "none"
    ev_pc,          \* per evaluation: position in create -> run -> parse
    ev_inp,         \* per evaluation: its CEAInputData
    ev_r,           \* per evaluation: the record parse_out_file returned
    ev_err,         \* per evaluation: the exception that ended it, or "none"
    launches,       \* per evaluation: number of solver processes started
    exit_status,    \* per evaluation: <<>> until the solver exits, then <<code>>
    solver_in,      \* per evaluation: ceadata.inp as read by its solver process
    overlap,        \* per evaluation: another evaluation stepped while it ran
    data,           \* the design-parameter dict passed to calculate
    calc_runs,      \* number of calls of calculate(data) made so far
    calc_err,       \* exception that ended the last call of calculate, or "none"
    cv_args,        \* arguments of the call of valve_flow_coefficient, <<>> before it
    cv_ret          \* what that call returned or raised

parser_vars == <<parse_pc, lines, line_no, relevant_flag, r, raised>>
writer_vars == <<inp, create_pc, create_err>>
eval_vars == <<ev_pc, ev_inp, ev_r, ev_err, launches, exit_status, solver_in,
               overlap>>
plumb_vars == <<data, calc_runs, calc_err, cv_args, cv_ret>>
vars == <<CEA_OUT, CEA_INP, parser_vars, writer_vars, eval_vars, plumb_vars>>

-----------------------------------------------------------------------------
(* Bounds *)

MaxLines == 4       \* longest output document read by the parser
MaxFuels == 2       \* longest fuel_chems / fuel_chem_mass_percs list
NumEvals == 2       \* evaluations sharing ceadata.inp / ceadata.out
MaxRuns == 2        \* calls of calculate on one dataset

-----------------------------------------------------------------------------
(* Text of the solver's output document *)

START == "THEORETICAL ROCKET PERFORMANCE"
END == "PRODUCTS WHICH WERE CONSIDERED"

\* the row markers, in the order of the if/elif chain
RowMarkers == <<"T, K", "GAMMAs", "M, (1/n)", "CSTAR, M/SEC", "Isp, M/SEC">>

\* `sub in line`
Contains(sub, line) == \E i \in 1..Len(line) : line[i] = sub

\* whitespace-separated tokens of one phrase
Words(phrase) ==
    CASE phrase = "T, K" -> <<"T,", "K">>
      [] phrase = "GAMMAs" -> <<"GAMMAs">>
      [] phrase = "M, (1/n)" -> <<"M,", "(1/n)">>
      [] phrase = "CSTAR, M/SEC" -> <<"CSTAR,", "M/SEC">>
      [] phrase = "Isp, M/SEC" -> <<"Isp,", "M/SEC">>
      [] phrase = START -> <<"THEORETICAL", "ROCKET", "PERFORMANCE">>
      [] phrase = END -> <<"PRODUCTS", "WHICH", "WERE", "CONSIDERED">>
      [] OTHER -> <<phrase>>

\* line.split()
RECURSIVE Split(_)
Split(line) ==
    IF line = <<>> THEN <<>> ELSE Words(Head(line)) \o Split(Tail(line))

\* float(tok): the value of a numeral, ValueError for any other token
IsNumeral(tok) == tok \in {"0", "1", "2", "3"}
Float(tok) ==
    CASE tok = "0" -> 0
      [] tok = "1" -> 1
      [] tok = "2" -> 2
      [] tok = "3" -> 3

-----------------------------------------------------------------------------
(* parse_out_file *)

CEAOutputData_nonzero ==
    [chamber_temp |-> 0, exhaust_gamma |-> 0, exhaust_molar_mass |-> 0,
     cstar |-> 1, exhaust_velocity |-> 0]

\* CEAOutputData(): the declared fields at their defaults
CEAOutputData ==
    [chamber_temp |-> 0, exhaust_gamma |-> 0, exhaust_molar_mass |-> 0,
     cstar |-> 0, exhaust_velocity |-> 0]

\* r.a = v: attribute assignment on a dataclass instance without __slots__
\* (an undeclared name becomes a new attribute)
SetAttr(obj, a, v) == [k \in DOMAIN obj \cup {a} |-> IF k = a THEN v ELSE obj[k]]

\* attribute assigned by the branch of each row marker
RowAttr(m) ==
    CASE m = "T, K" -> "chamber_temp"
      [] m = "GAMMAs" -> "throat_gamma"
      [] m = "M, (1/n)" -> "throat_molar_mass"
      [] m = "CSTAR, M/SEC" -> "cstar"
      [] m = "Isp, M/SEC" -> "exhaust_velocity"

\* 0-based index into line.split() read by the branch of each row marker
RowIndex(m) ==
    CASE m = "T, K" -> 2
      [] m = "GAMMAs" -> 2
      [] m = "M, (1/n)" -> 3
      [] m = "CSTAR, M/SEC" -> 3
      [] m = "Isp, M/SEC" -> 3

\* the branch of the if/elif chain taken for a line: the first marker, in
\* chain order, that the line contains; "none" when no branch is taken
FirstRow(line) ==
    IF \E k \in 1..Len(RowMarkers) : Contains(RowMarkers[k], line)
    THEN LET k == CHOOSE j \in 1..Len(RowMarkers) :
                    /\ Contains(RowMarkers[j], line)
                    /\ \A i \in 1..(j - 1) : ~Contains(RowMarkers[i], line)
         IN RowMarkers[k]
    ELSE "none"

\* r.<attr> = float(line.split()[index]) of the branch taken
ParseRow(obj, line, m) ==
    LET toks == Split(line)
        ix == RowIndex(m) + 1
    IN IF ix > Len(toks) THEN [r |-> obj, err |-> "IndexError"]
       ELSE IF ~IsNumeral(toks[ix]) THEN [r |-> obj, err |-> "ValueError"]
       ELSE [r |-> SetAttr(obj, RowAttr(m), Float(toks[ix])), err |-> "none"]

NextFlag_sticky(flag, line) ==
    IF Contains(START, line) THEN TRUE ELSE flag

\* the if/elif on the section markers at the end of the loop body
NextFlag(flag, line) ==
    IF Contains(START, line) THEN TRUE
    ELSE IF Contains(END, line) THEN FALSE
    ELSE flag

ParseLine_noflag(st, line) ==
    LET m == FirstRow(line)
        row == IF m # "none" THEN ParseRow(st.r, line, m)
               ELSE [r |-> st.r, err |-> "none"]
    IN IF row.err # "none"
       THEN [r |-> st.r, relevant_flag |-> st.relevant_flag, err |-> row.err]
       ELSE [r |-> row.r, relevant_flag |-> NextFlag(st.relevant_flag, line),
             err |-> "none"]

\* one iteration of `for line in f.readlines()`
ParseLine(st, line) ==
    LET m == FirstRow(line)
        row == IF st.relevant_flag /\ m # "none" THEN ParseRow(st.r, line, m)
               ELSE [r |-> st.r, err |-> "none"]
    IN IF row.err # "none"
       THEN [r |-> st.r, relevant_flag |-> st.relevant_flag, err |-> row.err]
       ELSE [r |-> row.r, relevant_flag |-> NextFlag(st.relevant_flag, line),
             err |-> "none"]

\* the whole loop over a document, stopping at the first exception
RECURSIVE ParseFrom(_, _)
ParseFrom(st, doc) ==
    IF doc = <<>> \/ st.err # "none" THEN st
    ELSE ParseFrom(ParseLine(st, Head(doc)), Tail(doc))

\* parse_out_file() on a document: the record returned, or the exception
ParseOutFile(doc) ==
    LET st == ParseFrom([r |-> CEAOutputData, relevant_flag |-> FALSE,
                         err |-> "none"], doc)
    IN [r |-> st.r, err |-> st.err]

-----------------------------------------------------------------------------
(* create_inp_file *)

\* text of a non-negative integer below 1000, padded to three digits
Pad3(k) ==
    IF k < 10 THEN "00" \o ToString(k)
    ELSE IF k < 100 THEN "0" \o ToString(k)
    ELSE ToString(k)

Abs(n) == IF n < 0 THEN -n ELSE n

\* f"{p/q:.3f}" for integers p, q with q # 0: the quotient rounded to three
\* decimals (ties to even); q = 1 gives f"{p:.3f}"
Fmt3(p, q) ==
    LET neg == (p < 0) # (q < 0)
        n == 1000 * Abs(p)
        d == Abs(q)
        fl == n \div d
        rem == n % d
        t == IF 2 * rem > d THEN fl + 1
             ELSE IF 2 * rem < d THEN fl
             ELSE IF fl % 2 = 0 THEN fl ELSE fl + 1
    IN (IF neg THEN "-" ELSE "") \o ToString(t \div 1000) \o "." \o Pad3(t % 1000)

\* one f.write(): the text pieces written and whether a '\n' ends them
Line(text, nl) == [text |-> text, nl |-> nl]

Min(a, b) == IF a < b THEN a ELSE b

\* the fuel= lines written by the loop over zip(fuel_chems, fuel_chem_mass_percs)
FuelLines_first(d, k) ==
    IF k > Min(1, Min(Len(d.fuel_chems), Len(d.fuel_chem_mass_percs)))
    THEN <<>>
    ELSE << Line(<<"fuel=", d.fuel_chems[k], " wt=",
                   Fmt3(d.fuel_chem_mass_percs[k], 1), " t,K=",
                   Fmt3(d.fuel_initial_temp, 1)>>, TRUE) >>

RECURSIVE FuelLines(_, _)
FuelLines(d, k) ==
    IF k > Min(Len(d.fuel_chems), Len(d.fuel_chem_mass_percs)) THEN <<>>
    ELSE << Line(<<"fuel=", d.fuel_chems[k], " wt=",
                   Fmt3(d.fuel_chem_mass_percs[k], 1), " t,K=",
                   Fmt3(d.fuel_initial_temp, 1)>>, TRUE) >>
         \o FuelLines(d, k + 1)

\* the writes made before the pip= line
Header(d) ==
    << Line(<<"problem">>, TRUE),
       Line(<<"rocket">>, TRUE),
       Line(<<IF d.equilibrium THEN "equilibrium" ELSE "frozen nfz=1">>, TRUE),
       Line(<<"p,bar=", Fmt3(d.pcham, 1)>>, TRUE) >>

\* create_inp_file(inp): the content of ceadata.inp when the with block is
\* left (open(..., 'w') truncates, the writes made so far are flushed on
\* close) and the exception raised, if any
CreateInp(d) ==
    IF d.pamb = 0
    THEN [file |-> Header(d), err |-> "ZeroDivisionError"]
    ELSE [file |-> Header(d)
                   \o << Line(<<"pip=", Fmt3(d.pcham, d.pamb)>>, TRUE),
                         Line(<<"o/f=", d.of>>, TRUE),
                         Line(<<"react">>, TRUE) >>
                   \o FuelLines(d, 1)
                   \o << Line(<<"ox=", d.ox_chem, " wt 100 t,K ",
                                Fmt3(d.ox_initial_temp, 1)>>, TRUE),
                         Line(<<"end">>, FALSE) >>,
          err |-> "none"]

\* CEAInputData values handed to create_inp_file
ChemLists == UNION { [1..n -> {"C2H5OH", "H2O"}] : n \in 0..MaxFuels }
PercLists == UNION { [1..n -> {100, 50}] : n \in 0..MaxFuels }

InputSpecs ==
    [pcham : {20}, pamb : {-1, 0, 1, 3}, of : {"1.5"},
     fuel_chems : ChemLists, fuel_chem_mass_percs : PercLists,
     fuel_initial_temp : {298}, ox_chem : {"O2"}, ox_initial_temp : {90},
     equilibrium : BOOLEAN]

\* the design of the end-to-end scenario
NominalInp ==
    [pcham |-> 20, pamb |-> 1, of |-> "1.5", fuel_chems |-> <<"C2H5OH">>,
     fuel_chem_mass_percs |-> <<100>>, fuel_initial_temp |-> 298,
     ox_chem |-> "O2", ox_initial_temp |-> 90, equilibrium |-> TRUE]

\* a ceadata.inp left by an earlier run
PriorInp == CreateInp(NominalInp).file

ParserIdle ==
    /\ parse_pc = "idle"
    /\ lines = <<>>
    /\ line_no = 0
    /\ relevant_flag = FALSE
    /\ r = CEAOutputData
    /\ raised = "none"

WriterIdle ==
    /\ create_pc = "idle"
    /\ create_err = "none"

-----------------------------------------------------------------------------
(* plumbing.py: numbers                                                    *)
(*                                                                         *)
(* A number is the expression that computed it: a dataset value Val(n), a  *)
(* literal of the source Const(c), a fluid property, or an operation on    *)
(* numbers.  Two numbers are equal when the same operations were applied   *)
(* to the same operands.  A raised exception is a number whose op is the   *)
(* exception's name; it passes through every later operation.  Dataset     *)
(* values are non-negative, so a sum is zero only when both operands are.  *)

Val(n) == [op |-> "val", n |-> n, args |-> <<>>]
Const(c) == [op |-> c, n |-> 1, args |-> <<>>]
Raise(exc) == [op |-> exc, n |-> 0, args |-> <<>>]
Term(op, args) == [op |-> op, n |-> 0, args |-> args]

IsErr(t) == t.op \in {"ZeroDivisionError", "ValueError"}

\* the first exception among the operands, in evaluation order
RECURSIVE FirstErr(_)
FirstErr(args) ==
    IF args = <<>> THEN Raise("none")
    ELSE IF IsErr(Head(args)) THEN Head(args)
    ELSE FirstErr(Tail(args))

AnyErr(args) == \E i \in 1..Len(args) : IsErr(args[i])

\* the number is 0 (0.0)
RECURSIVE IsZero(_)
IsZero(t) ==
    CASE t.op = "val" -> t.n = 0
      [] t.op = "mul" -> IsZero(t.args[1]) \/ IsZero(t.args[2])
      [] t.op = "div" -> IsZero(t.args[1])
      [] t.op = "add" -> IsZero(t.args[1]) /\ IsZero(t.args[2])
      [] t.op = "pow" -> IsZero(t.args[1])
      [] t.op = "sqrt" -> IsZero(t.args[1])
      [] OTHER -> FALSE

\* Python evaluates the operands of an operation once, before the operation
\* is applied: F applied to the value of v
Eager(F(_), v) == CHOOSE y \in { F(x) : x \in {v} } : TRUE

BinOp(op, p) == IF AnyErr(p) THEN FirstErr(p) ELSE Term(op, p)
MulOf(p) == BinOp("mul", p)
AddOf(p) == BinOp("add", p)
PowOf(p) == BinOp("pow", p)

\* a * b, a + b, a ** b
Mul(a, b) == Eager(MulOf, <<a, b>>)
Add(a, b) == Eager(AddOf, <<a, b>>)
Pow(a, b) == Eager(PowOf, <<a, b>>)

DivOf_ieee(p) == BinOp("div", p)

\* a / b on evaluated operands: Python raises ZeroDivisionError on a zero
\* divisor, for floats too
DivOf(p) ==
    IF AnyErr(p) THEN FirstErr(p)
    ELSE IF IsZero(p[2]) THEN Raise("ZeroDivisionError")
    ELSE Term("div", p)

Div(a, b) == Eager(DivOf, <<a, b>>)

\* math.sqrt
SqrtOf(p) == BinOp("sqrt", p)
Sqrt(a) == Eager(SqrtOf, <<a>>)

\* math.log10: ValueError (math domain error) at 0
Log10Of(p) ==
    IF AnyErr(p) THEN FirstErr(p)
    ELSE IF IsZero(p[1]) THEN Raise("ValueError")
    ELSE Term("log10", p)

Log10(a) == Eager(Log10Of, <<a>>)

\* cp.PropsSI(out, 'T', T, 'P', P, fluid): side-effect free and determined by
\* its arguments; a state at zero temperature or pressure cannot be resolved
PropsOf(p) ==
    IF AnyErr(<<p[2], p[3]>>) THEN FirstErr(<<p[2], p[3]>>)
    ELSE IF IsZero(p[2]) \/ IsZero(p[3]) THEN Raise("ValueError")
    ELSE Term("PropsSI " \o p[1] \o " " \o p[4], <<p[2], p[3]>>)

PropsSI(out, T, P, fluid) == Eager(PropsOf, <<out, T, P, fluid>>)

\* cp.PropsSI('M', fluid)
PropsSI_M(fluid) == Term("PropsSI M " \o fluid, <<>>)

-----------------------------------------------------------------------------
(* plumbing.py: formulas *)

reynolds_number(mdot, diameter, viscosity) ==
    LET area == Div(Mul(Const("math.pi"), Pow(diameter, Const("2"))), Const("4"))
    IN Div(Div(Mul(mdot, diameter), viscosity), area)

darcy_friction_factor(mdot, roughness, diameter, reynolds) ==
    Div(Const("1"),
        Pow(Mul(Const("-1.8"),
                Log10(Add(Pow(Div(Div(roughness, diameter), Const("3.7")),
                              Const("1.11")),
                          Div(Const("6.9"), reynolds)))),
            Const("2")))

pressure_drop(length, mdot, diameter, roughness, rho, viscosity) ==
    LET reynolds == reynolds_number(mdot, diameter, viscosity)
        friction == darcy_friction_factor(mdot, roughness, diameter, reynolds)
        dP == Div(Div(Mul(Div(Mul(Mul(length, friction), Const("8")),
                              Pow(Const("math.pi"), Const("2"))),
                          Pow(mdot, Const("2"))),
                      rho),
                  Pow(diameter, Const("5")))
    IN Div(dP, Const("1e5"))

velocity(mdot, diameter, rho) ==
    LET Vdot == Div(mdot, rho)
        area == Div(Mul(Const("math.pi"), Pow(diameter, Const("2"))), Const("4"))
    IN Div(Vdot, area)

valve_flow_coefficient(Vdot, P_in, P_out, T, molar_mass) ==
    LET specific_gravity == Div(molar_mass, PropsSI_M("air"))
        Vdot_cfh == Mul(Vdot, Const("127133"))
        T_Rankine == Mul(T, Const("1.8"))
        P_out_psi == Mul(P_out, Const("14.504"))
        Vdot_standard_cfh ==
            Div(Mul(Div(Mul(Vdot_cfh, P_out), Const("1.013")), Const("295")), T)
        Cv == Div(Mul(Vdot_standard_cfh, Sqrt(Mul(specific_gravity, T))),
                  Mul(Const("816"), P_out_psi))
    IN Cv

-----------------------------------------------------------------------------
(* plumbing.py: calculate *)

\* data[section][key] = v
Put(d, section, key, v) == [d EXCEPT ![section] = SetAttr(d[section], key, v)]

WriteOxPressureDrop_injector(d, v) == Put(d, "injector", "ox_pressure_drop", v)

\* data['plumbing']['ox_pressure_drop'] = ...
WriteOxPressureDrop(d, v) == Put(d, "plumbing", "ox_pressure_drop", v)

Inches == Const("2.54e-2")

\* The statements of calculate, each on the state of the call: the dict, the
\* exception raised so far, and the locals carried between statements.  An
\* assignment whose right-hand side raises is not made, and nothing after it
\* runs.
CalcStart(d) ==
    [data |-> d, err |-> "none",
     fuel_rho |-> d.propellants.fuel_density,
     fuel_visc |-> d.propellants.fuel_viscosity,
     roughness |-> d.plumbing.roughness,
     ox_rho |-> Val(0), ox_visc |-> Val(0)]

\* v is the value of a right-hand side: assign it, or raise
Assign(st, section, key, v) ==
    IF IsErr(v) THEN [st EXCEPT !.err = v.op]
    ELSE [st EXCEPT !.data = Put(st.data, section, key, v)]

AssignOxPressureDrop(st, v) ==
    IF IsErr(v) THEN [st EXCEPT !.err = v.op]
    ELSE [st EXCEPT !.data = WriteOxPressureDrop(st.data, v)]

FuelPressureDropOf(st) ==
    pressure_drop(st.data.plumbing.fuel_length, st.data.engine.fuel_mass_flow,
                  Mul(st.data.plumbing.fuel_diam, Inches), st.roughness,
                  st.fuel_rho, st.fuel_visc)

FuelFlowVelOf(st) ==
    velocity(st.data.engine.fuel_mass_flow,
             Mul(st.data.plumbing.fuel_diam, Inches), st.fuel_rho)

OxPressOf(st) ==
    Mul(Add(st.data.engine.chamber_pressure, st.data.injector.ox_pressure_drop),
        Const("1e5"))

OxPressureDropOf(st) ==
    pressure_drop(st.data.plumbing.ox_length, st.data.engine.ox_mass_flow,
                  Mul(st.data.plumbing.ox_diam, Inches), st.roughness,
                  st.ox_rho, st.ox_visc)

OxFlowVelOf(st) ==
    velocity(st.data.engine.ox_mass_flow,
             Mul(st.data.plumbing.ox_diam, Inches), st.ox_rho)

OxFlowCoeffOf(st) ==
    valve_flow_coefficient(
        st.data.injector.fuel_volume_flow, st.data.plumbing.tank_press,
        Add(st.data.injector.ox_pressure_drop, st.data.engine.chamber_pressure),
        st.data.propellants.ox_initial_temp,
        PropsSI_M(st.data.propellants.ox_chem))

\* data['plumbing']['fuel_pressure_drop'] = dp_fuel
StmtFuelPressureDrop(st) ==
    IF st.err # "none" THEN st
    ELSE Assign(st, "plumbing", "fuel_pressure_drop", Eager(FuelPressureDropOf, st))

\* data['plumbing']['fuel_flow_vel'] = velocity(...)
StmtFuelFlowVel(st) ==
    IF st.err # "none" THEN st
    ELSE Assign(st, "plumbing", "fuel_flow_vel", Eager(FuelFlowVelOf, st))

\* ox_rho = cp.PropsSI('D', ...)
StmtOxRho(st) ==
    IF st.err # "none" THEN st
    ELSE LET v == PropsSI("D", st.data.propellants.ox_initial_temp,
                          Eager(OxPressOf, st), st.data.propellants.ox_chem)
         IN IF IsErr(v) THEN [st EXCEPT !.err = v.op]
            ELSE [st EXCEPT !.ox_rho = v]

\* ox_visc = cp.PropsSI('V', ...)
StmtOxVisc(st) ==
    IF st.err # "none" THEN st
    ELSE LET v == PropsSI("V", st.data.propellants.ox_initial_temp,
                          Eager(OxPressOf, st), st.data.propellants.ox_chem)
         IN IF IsErr(v) THEN [st EXCEPT !.err = v.op]
            ELSE [st EXCEPT !.ox_visc = v]

\* data['plumbing']['ox_pressure_drop'] = pressure_drop(...)
StmtOxPressureDrop(st) ==
    IF st.err # "none" THEN st
    ELSE AssignOxPressureDrop(st, Eager(OxPressureDropOf, st))

\* data['plumbing']['ox_flow_vel'] = velocity(...)
StmtOxFlowVel(st) ==
    IF st.err # "none" THEN st
    ELSE Assign(st, "plumbing", "ox_flow_vel", Eager(OxFlowVelOf, st))

\* data['plumbing']['ox_flow_coeff'] = valve_flow_coefficient(...)
StmtOxFlowCoeff(st) ==
    IF st.err # "none" THEN st
    ELSE Assign(st, "plumbing", "ox_flow_coeff", Eager(OxFlowCoeffOf, st))

\* calculate(data): the dict when the call ends and the exception that ended
\* it, if any
CalcEnd(st) == [data |-> st.data, err |-> st.err]

Calculate(d) ==
    Eager(CalcEnd,
     Eager(StmtOxFlowCoeff,
      Eager(StmtOxFlowVel,
       Eager(StmtOxPressureDrop,
        Eager(StmtOxVisc,
         Eager(StmtOxRho,
          Eager(StmtFuelFlowVel,
           Eager(StmtFuelPressureDrop, CalcStart(d)))))))))

\* populated design-parameter datasets; stale: the plumbing outputs of an
\* earlier evaluation are still in the dict
Dataset(fmf, omf, pc, drop, fdiam, otemp, stale) ==
    LET inputs == [roughness |-> Val(1), fuel_length |-> Val(2),
                   ox_length |-> Val(3), fuel_diam |-> Val(fdiam),
                   ox_diam |-> Val(1), tank_press |-> Val(50)]
        outputs == [roughness |-> Val(1), fuel_length |-> Val(2),
                    ox_length |-> Val(3), fuel_diam |-> Val(fdiam),
                    ox_diam |-> Val(1), tank_press |-> Val(50),
                    fuel_pressure_drop |-> Val(7), fuel_flow_vel |-> Val(7),
                    ox_pressure_drop |-> Val(7), ox_flow_vel |-> Val(7),
                    ox_flow_coeff |-> Val(7)]
    IN [engine |-> [chamber_pressure |-> Val(pc), fuel_mass_flow |-> Val(fmf),
                    ox_mass_flow |-> Val(omf)],
        propellants |-> [fuel_density |-> Val(800), fuel_viscosity |-> Val(1),
                         ox_initial_temp |-> Val(otemp), ox_chem |-> "O2"],
        injector |-> [ox_pressure_drop |-> Val(drop),
                      fuel_volume_flow |-> Val(1)],
        plumbing |-> IF stale THEN outputs ELSE inputs]

Datasets ==
    { Dataset(fmf, omf, pc, drop, fdiam, otemp, stale) :
        fmf \in {0, 1}, omf \in {0, 2}, pc \in {0, 20}, drop \in {0, 5},
        fdiam \in {0, 1}, otemp \in {0, 90}, stale \in BOOLEAN }

\* arguments of direct calls of valve_flow_coefficient
ValveArgs ==
    [Vdot : {Val(1), Val(2)}, P_in : {Val(50)}, P_out : {Val(0), Val(1), Val(20)},
     T : {Val(0), Val(90)}, molar_mass : {Val(0), Val(32)}]

PlumbIdle ==
    /\ data = Dataset(1, 2, 20, 5, 1, 90, FALSE)
    /\ calc_runs = 0
    /\ calc_err = "none"
    /\ cv_args = <<>>
    /\ cv_ret = <<>>

Evals == 1..NumEvals

EvalIdle ==
    /\ ev_pc = [p \in Evals |-> "idle"]
    /\ ev_inp = [p \in Evals |-> NominalInp]
    /\ ev_r = [p \in Evals |-> CEAOutputData]
    /\ ev_err = [p \in Evals |-> "none"]
    /\ launches = [p \in Evals |-> 0]
    /\ exit_status = [p \in Evals |-> <<>>]
    /\ solver_in = [p \in Evals |-> <<>>]
    /\ overlap = [p \in Evals |-> FALSE]

-----------------------------------------------------------------------------
(* Specification of the input writer: create_inp_file on any input *)

InitInp ==
    /\ inp \in InputSpecs
    /\ CEA_INP = PriorInp
    /\ CEA_OUT = <<>>
    /\ WriterIdle
    /\ ParserIdle
    /\ EvalIdle
    /\ PlumbIdle

create_inp_file ==
    /\ create_pc = "idle"
    /\ LET out == CreateInp(inp)
       IN /\ CEA_INP' = out.file
          /\ create_err' = out.err
          /\ create_pc' = IF out.err = "none" THEN "returned" ELSE "raised"
    /\ UNCHANGED <<inp, CEA_OUT, parser_vars, eval_vars, plumb_vars>>

NextInp == create_inp_file

SpecInp == InitInp /\ [][NextInp]_vars

-----------------------------------------------------------------------------
(* Output documents read by the parser *)

\* lines of the documents: the section markers, one well-formed row per row
\* marker, a row with too few tokens, a row with a non-numeric value, and a
\* line that holds two row markers and the end marker
LineSet ==
    { <<START>>, <<END>>,
      <<"T, K", "1", "2">>,
      <<"GAMMAs", "1", "2", "3">>,
      <<"M, (1/n)", "1", "2", "3">>,
      <<"CSTAR, M/SEC", "1", "2">>,
      <<"Isp, M/SEC", "2", "1">>,
      <<"T, K">>,
      <<"CSTAR, M/SEC", "1", "x">>,
      <<"T, K", "3", "GAMMAs", END>> }

Docs == UNION { [1..n -> LineSet] : n \in 0..MaxLines }

-----------------------------------------------------------------------------
(* Specification of the parser: parse_out_file run on any document *)

InitParse ==
    /\ CEA_OUT \in Docs
    /\ CEA_INP = PriorInp
    /\ inp = NominalInp
    /\ ParserIdle
    /\ WriterIdle
    /\ EvalIdle
    /\ PlumbIdle

\* r = CEAOutputData(); open; relevant_flag = False; f.readlines()
parse_open ==
    /\ parse_pc = "idle"
    /\ r' = CEAOutputData
    /\ lines' = CEA_OUT
    /\ line_no' = 0
    /\ relevant_flag' = FALSE
    /\ parse_pc' = "loop"
    /\ UNCHANGED <<CEA_OUT, raised, CEA_INP, writer_vars, eval_vars, plumb_vars>>

\* one iteration of the loop
parse_line ==
    /\ parse_pc = "loop"
    /\ line_no < Len(lines)
    /\ LET st == ParseLine([r |-> r, relevant_flag |-> relevant_flag,
                            err |-> "none"], lines[line_no + 1])
       IN /\ r' = st.r
          /\ relevant_flag' = st.relevant_flag
          /\ raised' = st.err
          /\ parse_pc' = IF st.err = "none" THEN "loop" ELSE "raised"
    /\ line_no' = line_no + 1
    /\ UNCHANGED <<CEA_OUT, lines, CEA_INP, writer_vars, eval_vars, plumb_vars>>

\* return r
parse_return ==
    /\ parse_pc = "loop"
    /\ line_no = Len(lines)
    /\ parse_pc' = "returned"
    /\ UNCHANGED <<CEA_OUT, lines, line_no, relevant_flag, r, raised, CEA_INP,
                 writer_vars, eval_vars, plumb_vars>>

NextParse == parse_open \/ parse_line \/ parse_return

SpecParse == InitParse /\ [][NextParse]_vars

-----------------------------------------------------------------------------
(* run_executable and the evaluation sequence                              *)
(* create_inp_file -> run_executable -> parse_out_file                     *)

\* The solver FCEA2m.exe is an external program: it is given the stem
\* 'ceadata' on stdin, reads ceadata.inp in CEA_PATH and writes ceadata.out.
\* It is deterministic in its input document.  From a complete document it
\* writes a results window whose temperature row is determined by the p,bar=
\* line; from any other document it writes no results window.
SolverValue(text) ==
    IF \E n \in 0..3 : Fmt3(n, 1) = text
    THEN ToString(CHOOSE n \in 0..3 : Fmt3(n, 1) = text)
    ELSE "0"

Solver(doc) ==
    IF /\ Len(doc) >= 5
       /\ doc[Len(doc)] = Line(<<"end">>, FALSE)
       /\ doc[4].text[1] = "p,bar="
    THEN << <<"T, K", "0">>,
            <<START>>,
            <<"T, K", SolverValue(doc[4].text[2]), "0">>,
            <<END>> >>
    ELSE << <<"x">> >>

\* exit statuses of the solver process
ExitCodes == {0, 1}

RunOutcome_nocheck(code) == "none"

\* subprocess.run(..., check=True): CalledProcessError on a non-zero status
RunOutcome(code) == IF code # 0 THEN "CalledProcessError" ELSE "none"

\* input specs of the evaluations: the nominal design at several chamber
\* pressures
EvalSpecs == { [NominalInp EXCEPT !.pcham = c] : c \in {1, 2, 3} }

Active(p) == ev_pc[p] \in {"writing", "created", "running", "ran"}

\* history: a step of evaluation p while another evaluation is under way
\* marks both as overlapping
Overlap(p) ==
    overlap' = [q \in Evals |->
                  IF q = p THEN overlap[p] \/ (\E o \in Evals \ {p} : Active(o))
                  ELSE overlap[q] \/ Active(q)]

InitEval ==
    /\ ev_inp \in [Evals -> EvalSpecs]
    /\ ev_pc = [p \in Evals |-> "idle"]
    /\ ev_r = [p \in Evals |-> CEAOutputData]
    /\ ev_err = [p \in Evals |-> "none"]
    /\ launches = [p \in Evals |-> 0]
    /\ exit_status = [p \in Evals |-> <<>>]
    /\ solver_in = [p \in Evals |-> <<>>]
    /\ overlap = [p \in Evals |-> FALSE]
    /\ CEA_INP = PriorInp
    /\ CEA_OUT = Solver(PriorInp)
    /\ inp = NominalInp
    /\ WriterIdle
    /\ ParserIdle
    /\ PlumbIdle

\* create_inp_file: open(CEA_INP, mode='w') truncates the shared file
eval_open(p) ==
    /\ ev_pc[p] = "idle"
    /\ CEA_INP' = <<>>
    /\ ev_pc' = [ev_pc EXCEPT ![p] = "writing"]
    /\ Overlap(p)
    /\ UNCHANGED <<CEA_OUT, ev_inp, ev_r, ev_err, launches, exit_status,
                   solver_in, parser_vars, writer_vars, plumb_vars>>

eval_close_noflush(p) ==
    /\ ev_pc[p] = "writing"
    /\ ev_pc' = [ev_pc EXCEPT ![p] = "created"]
    /\ Overlap(p)
    /\ UNCHANGED <<CEA_INP, CEA_OUT, ev_inp, ev_r, ev_err, launches,
                   exit_status, solver_in, parser_vars, writer_vars, plumb_vars>>

\* create_inp_file: the writes reach the shared file when the with block
\* closes it
eval_close(p) ==
    /\ ev_pc[p] = "writing"
    /\ LET out == CreateInp(ev_inp[p])
       IN /\ CEA_INP' = out.file
          /\ ev_err' = [ev_err EXCEPT ![p] = out.err]
          /\ ev_pc' = [ev_pc EXCEPT ![p] =
                          IF out.err = "none" THEN "created" ELSE "raised"]
    /\ Overlap(p)
    /\ UNCHANGED <<CEA_OUT, ev_inp, ev_r, launches, exit_status, solver_in,
                   parser_vars, writer_vars, plumb_vars>>

\* run_executable: subprocess.run starts the solver, which reads ceadata.inp
run_launch(p) ==
    /\ ev_pc[p] = "created"
    /\ launches' = [launches EXCEPT ![p] = @ + 1]
    /\ solver_in' = [solver_in EXCEPT ![p] = CEA_INP]
    /\ ev_pc' = [ev_pc EXCEPT ![p] = "running"]
    /\ Overlap(p)
    /\ UNCHANGED <<CEA_INP, CEA_OUT, ev_inp, ev_r, ev_err, exit_status,
                   parser_vars, writer_vars, plumb_vars>>

\* run_executable: subprocess.run waits for the solver to exit; a solver
\* that exits with status 0 has written ceadata.out
run_exit(p) ==
    /\ ev_pc[p] = "running"
    /\ \E code \in ExitCodes :
        /\ exit_status' = [exit_status EXCEPT ![p] = <<code>>]
        /\ CEA_OUT' = IF code = 0 THEN Solver(solver_in[p]) ELSE CEA_OUT
        /\ ev_err' = [ev_err EXCEPT ![p] = RunOutcome(code)]
        /\ ev_pc' = [ev_pc EXCEPT ![p] =
                        IF RunOutcome(code) = "none" THEN "ran" ELSE "raised"]
    /\ Overlap(p)
    /\ UNCHANGED <<CEA_INP, ev_inp, ev_r, launches, solver_in, parser_vars,
                   writer_vars, plumb_vars>>

\* parse_out_file on the shared ceadata.out
eval_parse(p) ==
    /\ ev_pc[p] = "ran"
    /\ LET res == ParseOutFile(CEA_OUT)
       IN /\ ev_r' = [ev_r EXCEPT ![p] = res.r]
          /\ ev_err' = [ev_err EXCEPT ![p] = res.err]
          /\ ev_pc' = [ev_pc EXCEPT ![p] =
                          IF res.err = "none" THEN "done" ELSE "raised"]
    /\ Overlap(p)
    /\ UNCHANGED <<CEA_INP, CEA_OUT, ev_inp, launches, exit_status, solver_in,
                   parser_vars, writer_vars, plumb_vars>>

NextEval ==
    \E p \in Evals :
        \/ eval_open(p)
        \/ eval_close(p)
        \/ run_launch(p)
        \/ run_exit(p)
        \/ eval_parse(p)

SpecEval == InitEval /\ [][NextEval]_vars

-----------------------------------------------------------------------------
(* Specification of the flow network: calculate run repeatedly on one      *)
(* dataset, and valve_flow_coefficient called directly                     *)

InitPlumb ==
    /\ data \in Datasets
    /\ calc_runs = 0
    /\ calc_err = "none"
    /\ cv_args = <<>>
    /\ cv_ret = <<>>
    /\ CEA_INP = PriorInp
    /\ CEA_OUT = <<>>
    /\ inp = NominalInp
    /\ WriterIdle
    /\ ParserIdle
    /\ EvalIdle

calculate ==
    /\ calc_runs < MaxRuns
    /\ LET out == Calculate(data)
       IN /\ data' = out.data
          /\ calc_err' = out.err
    /\ calc_runs' = calc_runs + 1
    /\ UNCHANGED <<cv_args, cv_ret, CEA_INP, CEA_OUT, parser_vars, writer_vars,
                   eval_vars>>

call_valve_flow_coefficient ==
    /\ cv_args = <<>>
    /\ \E a \in ValveArgs :
        /\ cv_args' = <<a>>
        /\ cv_ret' = <<valve_flow_coefficient(a.Vdot, a.P_in, a.P_out, a.T,
                                              a.molar_mass)>>
    /\ UNCHANGED <<data, calc_runs, calc_err, CEA_INP, CEA_OUT, parser_vars,
                   writer_vars, eval_vars>>

NextPlumb == calculate \/ call_valve_flow_coefficient

SpecPlumb == InitPlumb /\ [][NextPlumb]_vars

-----------------------------------------------------------------------------
(* Vocabulary of the parser properties *)

IsStart(line) == Contains(START, line)
IsEnd(line) == Contains(END, line) /\ ~Contains(START, line)

\* line i of doc lies inside the results window: some start-marker line comes
\* before it with no end-marker line in between
InWindow(doc, i) ==
    \E s \in 1..(i - 1) :
        /\ IsStart(doc[s])
        /\ \A e \in (s + 1)..(i - 1) : ~IsEnd(doc[e])

\* line i of doc comes before the first start-marker line, or after an
\* end-marker line with no later start-marker line before it
Outside(doc, i) == ~InWindow(doc, i) /\ ~IsStart(doc[i])

\* the window was entered and then closed within the first n lines
WindowClosed(doc, n) ==
    \E e \in 1..n : IsEnd(doc[e]) /\ InWindow(doc, e)

Replace(doc, i, line) == [doc EXCEPT ![i] = line]

Finished == parse_pc \in {"returned", "raised"}

\* the field CEAOutputData declares for the quantity of each row
DeclaredField(m) ==
    CASE m = "T, K" -> "chamber_temp"
      [] m = "GAMMAs" -> "exhaust_gamma"
      [] m = "M, (1/n)" -> "exhaust_molar_mass"
      [] m = "CSTAR, M/SEC" -> "cstar"
      [] m = "Isp, M/SEC" -> "exhaust_velocity"

\* the token index the specification gives for each row
ClaimedIndex(m) == IF m = "T, K" THEN 2 ELSE 3

Markers == {RowMarkers[k] : k \in 1..Len(RowMarkers)}

\* C1: the outcome of parse_out_file does not depend on the lines outside
\* the results window: replacing any line that comes before the first start
\* marker, or after an end marker with no later start marker, by any other
\* line without a start marker (row markers included) leaves the returned
\* record, field by field, and the exception raised, if any, the same.
C1_OutsideLinesIgnored ==
    Finished =>
        \A i \in 1..Len(lines) : \A l \in LineSet :
            (Outside(lines, i) /\ ~IsStart(l)) =>
                ParseOutFile(Replace(lines, i, l)) = [r |-> r, err |-> raised]

\* a parse that returned a populated record from a document with a row line
\* in front of the window and a row line behind it
C1_Witness ==
    /\ parse_pc = "returned"
    /\ r # CEAOutputData
    /\ \E i, j \in 1..Len(lines) :
        /\ i < j
        /\ Outside(lines, i) /\ FirstRow(lines[i]) # "none"
        /\ Outside(lines, j) /\ FirstRow(lines[j]) # "none"
        /\ \E k \in (i + 1)..(j - 1) : InWindow(lines, k)

\* C2: round trip of the parser: when the results window holds exactly one
\* line with a given row marker, and the token at the specified index (2 for
\* 'T, K', 3 for the other four rows) is a numeral, the field CEAOutputData
\* declares for that quantity equals the value of that token.
C2_RoundTrip ==
    parse_pc = "returned" =>
        \A i \in 1..Len(lines) : \A m \in Markers :
            ( /\ InWindow(lines, i)
              /\ FirstRow(lines[i]) = m
              /\ \A j \in 1..Len(lines) :
                    (j # i /\ InWindow(lines, j)) => ~Contains(m, lines[j])
              /\ Len(Split(lines[i])) > ClaimedIndex(m)
              /\ IsNumeral(Split(lines[i])[ClaimedIndex(m) + 1]) )
            => r[DeclaredField(m)] = Float(Split(lines[i])[ClaimedIndex(m) + 1])

\* every row line inside the window carries a numeral at the index its
\* branch reads
RowsWellFormed(doc) ==
    \A i \in 1..Len(doc) :
        (InWindow(doc, i) /\ FirstRow(doc[i]) # "none") =>
            LET toks == Split(doc[i])
                ix == RowIndex(FirstRow(doc[i])) + 1
            IN ix <= Len(toks) /\ IsNumeral(toks[ix])

NoRowInWindow(doc, m) ==
    \A i \in 1..Len(doc) : InWindow(doc, i) => ~Contains(m, doc[i])

DefaultsKept ==
    parse_pc = "returned" =>
        \A m \in Markers : NoRowInWindow(lines, m) => r[DeclaredField(m)] = 0

\* C5 (as stated): parse_out_file never raises, whatever the document, and
\* every field whose row marker never occurs inside the window is returned
\* at its default 0.
C5_NeverRaises == raised = "none" /\ DefaultsKept

\* C5 (amended): when every row line inside the window carries a numeral at
\* the index its branch reads, parse_out_file finishes without raising; and
\* whenever it returns, every field whose row marker never occurs inside the
\* window is at its default 0.
C5_MissingRowNonFatal ==
    /\ (Finished /\ RowsWellFormed(lines)) => raised = "none"
    /\ DefaultsKept

\* a returned record with one field populated and another row missing
C5_Witness ==
    /\ parse_pc = "returned"
    /\ r.chamber_temp # 0
    /\ NoRowInWindow(lines, "CSTAR, M/SEC")
    /\ r.cstar = 0

\* C9 (as stated): once an end-marker line has been read inside the window,
\* no later line changes a field of r.
C9_NoReentry ==
    [][(parse_pc = "loop" /\ WindowClosed(lines, line_no)) => r' = r]_vars

\* C9 (amended): a line read while the parser is outside the window changes
\* no field of r: after the end marker nothing is parsed until a later
\* start-marker line re-opens the window.
C9_ClosedUntilReopened ==
    [][(parse_pc = "loop" /\ line_no < Len(lines)
            /\ ~InWindow(lines, line_no + 1)) => r' = r]_vars

\* a row line has just been consumed after the window was closed, and a
\* field parsed inside the window is still in r
C9_Witness ==
    /\ parse_pc = "loop"
    /\ line_no >= 1
    /\ WindowClosed(lines, line_no - 1)
    /\ ~InWindow(lines, line_no)
    /\ FirstRow(lines[line_no]) # "none"
    /\ r # CEAOutputData

-----------------------------------------------------------------------------
(* Properties of the input writer *)

\* a valid input: lists of equal length, ambient pressure > 0
ValidInp(d) ==
    /\ Len(d.fuel_chems) = Len(d.fuel_chem_mass_percs)
    /\ d.pamb > 0

StartsWith(line, prefix) == Len(line.text) >= 1 /\ line.text[1] = prefix

FuelAt(doc) == {i \in 1..Len(doc) : StartsWith(doc[i], "fuel=")}
OxAt(doc) == {i \in 1..Len(doc) : StartsWith(doc[i], "ox=")}

\* C3: for a valid input, the document written by create_inp_file has
\* exactly one fuel= line per fuel constituent, naming the constituents in
\* list order, exactly one ox= line, placed after every fuel= line, and its
\* last line is the bare text 'end' with no newline or other text after it.
C3_InputDocumentShape ==
    (create_pc = "returned" /\ ValidInp(inp)) =>
        LET n == Len(inp.fuel_chems)
        IN /\ Cardinality(FuelAt(CEA_INP)) = n
           /\ \E first \in 1..Len(CEA_INP) :
                 \A k \in 1..n :
                    /\ (first + k) \in FuelAt(CEA_INP)
                    /\ CEA_INP[first + k].text[2] = inp.fuel_chems[k]
           /\ Cardinality(OxAt(CEA_INP)) = 1
           /\ \A o \in OxAt(CEA_INP) : \A f \in FuelAt(CEA_INP) : f < o
           /\ CEA_INP[Len(CEA_INP)] = Line(<<"end">>, FALSE)

\* a document written for a blend of two different constituents
C3_Witness ==
    /\ create_pc = "returned"
    /\ ValidInp(inp)
    /\ Len(inp.fuel_chems) = 2
    /\ inp.fuel_chems[1] # inp.fuel_chems[2]
    /\ CEA_INP # PriorInp

\* C4: create_inp_file rejects a malformed input before it writes anything:
\* with ambient pressure <= 0 or lists of different lengths the call ends in
\* an error and ceadata.inp holds the content it held before the call.
C4_RejectsBeforeWriting ==
    [][(create_pc = "idle" /\ create_pc' # "idle" /\ ~ValidInp(inp)) =>
            (create_pc' = "raised" /\ CEA_INP' = CEA_INP)]_vars

-----------------------------------------------------------------------------
(* Properties of the solver runner and of the evaluation sequence *)

\* the evaluation has left run_executable
LeftRun(p) == ev_pc[p] \in {"ran", "done"} \/ exit_status[p] # <<>>

\* C7: run_executable starts the solver exactly once per call and waits for
\* it to exit; after a non-zero exit status the call has ended in
\* CalledProcessError, the solver was not started again, and the evaluation
\* never went on as if run_executable had returned.
C7_NonZeroExitIsFatal ==
    \A p \in Evals :
        /\ launches[p] <= 1
        /\ LeftRun(p) => (launches[p] = 1 /\ exit_status[p] # <<>>)
        /\ ev_pc[p] \in {"ran", "done"} => exit_status[p] = <<0>>
        /\ (exit_status[p] # <<>> /\ exit_status[p] # <<0>>) =>
              (ev_pc[p] = "raised" /\ ev_err[p] = "CalledProcessError")

\* a solver run that exited with a non-zero status
C7_Witness ==
    \E p \in Evals :
        /\ exit_status[p] = <<1>>
        /\ launches[p] = 1
        /\ ev_pc[p] = "raised"

\* the record an evaluation of input d yields when it runs alone
Expected(d) == ParseOutFile(Solver(CreateInp(d).file)).r

\* C10: the shared files make the sequence safe only with one evaluation in
\* flight: an evaluation during which no other evaluation took a step
\* returns the record computed from its own input document.  (The witness is
\* the interleaved case: an evaluation returns the record that belongs to
\* the other evaluation's input.)
C10_SequentialIsSafe ==
    \A p \in Evals :
        (ev_pc[p] = "done" /\ ~overlap[p]) => ev_r[p] = Expected(ev_inp[p])

\* interleaved evaluations of different inputs: one has returned the record
\* of the other's input
C10_Witness ==
    \E p, q \in Evals :
        /\ p # q
        /\ ev_pc[p] = "done"
        /\ overlap[p]
        /\ Expected(ev_inp[q]) # Expected(ev_inp[p])
        /\ ev_r[p] = Expected(ev_inp[q])

-----------------------------------------------------------------------------
(* Properties of the flow network *)

\* the fields calculate reads, as <<section, key>>
ReadKeys ==
    { <<"propellants", "fuel_density">>, <<"propellants", "fuel_viscosity">>,
      <<"propellants", "ox_initial_temp">>, <<"propellants", "ox_chem">>,
      <<"plumbing", "roughness">>, <<"plumbing", "fuel_length">>,
      <<"plumbing", "fuel_diam">>, <<"plumbing", "ox_length">>,
      <<"plumbing", "ox_diam">>, <<"plumbing", "tank_press">>,
      <<"engine", "fuel_mass_flow">>, <<"engine", "ox_mass_flow">>,
      <<"engine", "chamber_pressure">>, <<"injector", "ox_pressure_drop">>,
      <<"injector", "fuel_volume_flow">> }

OutputKeys ==
    {"fuel_pressure_drop", "fuel_flow_vel", "ox_pressure_drop", "ox_flow_vel",
     "ox_flow_coeff"}

\* C6: calculate is idempotent: a call of calculate leaves every field it
\* reads as it was, and a call made after an earlier call on the same
\* dataset leaves the whole dataset, the five plumbing outputs included, and
\* the outcome of the call as the earlier call left them.
C6_CalculateIdempotent ==
    [][(calc_runs' = calc_runs + 1) =>
          /\ \A k \in ReadKeys : data'[k[1]][k[2]] = data[k[1]][k[2]]
          /\ calc_runs >= 1 => (data' = data /\ calc_err' = calc_err)]_vars

\* calculate has run twice without error and the five outputs are computed
C6_Witness ==
    /\ calc_runs = 2
    /\ calc_err = "none"
    /\ OutputKeys \subseteq DOMAIN data.plumbing
    /\ \A k \in OutputKeys : data.plumbing[k] # Val(7)

Positive(t) == t.op = "val" /\ t.n > 0

\* C8: valve_flow_coefficient called with P_out = 0 and every other
\* argument positive ends in an error; it returns no value.
C8_ZeroOutletPressureFails ==
    (cv_args # <<>> /\ cv_args[1].P_out = Val(0)
        /\ Positive(cv_args[1].Vdot) /\ Positive(cv_args[1].P_in)
        /\ Positive(cv_args[1].T) /\ Positive(cv_args[1].molar_mass))
    => IsErr(cv_ret[1])

\* such a call has been made and has raised ZeroDivisionError
C8_Witness ==
    /\ cv_args # <<>>
    /\ cv_args[1].P_out = Val(0)
    /\ Positive(cv_args[1].Vdot) /\ Positive(cv_args[1].P_in)
    /\ Positive(cv_args[1].T) /\ Positive(cv_args[1].molar_mass)
    /\ cv_ret[1] = Raise("ZeroDivisionError")

====
